---- MODULE Spec2Model ----
(***************************************************************************)
(* Model of mesh-sampling.py: the blue noise sampling pipeline             *)
(*   main -> mesh_area -> uniform_sample_mesh -> triangle_point_picking    *)
(*        -> blue_noise_sample_elimination -> display.                     *)
(*                                                                         *)
(* Arithmetic.  The program computes in binary floating point; the model   *)
(* computes in fixed point:                                                *)
(*   - coordinates are integers; a random draw u in [0,1) is a / Grid      *)
(*     with a in 0..Grid-1, and mesh vertices are multiples of Grid so     *)
(*     that every sampled point is again an integer vector;                *)
(*   - distances and radii are integers in units of 1/Scale (rounded       *)
(*     down), ratios d/(2*rmax) are rounded down to multiples of 1/Scale,  *)
(*     so a pair weight is an integer in units of Scale^(-alpha);          *)
(*   - areas are kept in units of one half (the factor .5 of mesh_area).   *)
(* IEEE special values are kept: x/0 with x > 0 is inf, 0/0 is NaN, every  *)
(* comparison with NaN is false and every sum with NaN is NaN.             *)
(* Python indices 0..M-1 are the model's 1..M.                             *)
(***************************************************************************)
EXTENDS Integers, Sequences, FiniteSets, TLC

VARIABLES
    pc,                 \* position of the running call
    calls,              \* functions of the program entered so far
    stderr,             \* lines written to sys.stderr
    triangle_list,      \* main: the loaded mesh, a sequence of vertex triplets
    tri_area,           \* main: per-triangle area, in halves
    sample_count,       \* args.sample_count / the sample_count parameter
    point_list,         \* candidate points (main's point_list / the parameter)
    mesh_surface_area,  \* parameter of blue_noise_sample_elimination, in halves
    rng,                \* direct call of triangle_point_picking: the values
                        \* numpy.random.random returns, in 1/Grid
    X,                  \* triangle_point_picking: the folded draws, in 1/Grid
    heap,               \* blue_noise_sample_elimination: sorted list of (w, i)
    id_set,             \* blue_noise_sample_elimination: surviving indices
    removed,            \* history: the indices popped at line 75, in order
    result,             \* value returned by the function called last
    outcome,            \* "running", "returned", or the exception raised
    shown               \* points handed to ax.scatter / plot.show

vars == <<pc, calls, stderr, triangle_list, tri_area, sample_count, point_list,
          mesh_surface_area, rng, X, heap, id_set, removed, result, outcome,
          shown>>

----------------------------------------------------------------------------
(* Bounds of the exploration *)

Grid == 3
MaxCoord == 1
MaxPoints == 3
MaxArea == 4
Scale == 4

(* Program constants *)

alpha == 8
Oversample == 4
Sqrt3Milli == 1732

----------------------------------------------------------------------------
(* Generic helpers *)

Range(s) == {s[k] : k \in 1..Len(s)}

Min(a, b) == IF a <= b THEN a ELSE b

RECURSIVE Pow(_, _)
Pow(b, e) == IF e = 0 THEN 1 ELSE b * Pow(b, e - 1)

\* numpy.sqrt in fixed point: the integer square root, rounded down
Isqrt(n) == CHOOSE r \in 0..n : r * r <= n /\ (r + 1) * (r + 1) > n

\* IEEE NaN; every other weight of the model is >= 0
NaN == 0 - 1

Add(a, b) == IF a = NaN \/ b = NaN THEN NaN ELSE a + b

NumLess(a, b) == a # NaN /\ b # NaN /\ a < b

RECURSIVE SumSeq(_)
SumSeq(s) == IF s = <<>> THEN 0 ELSE Add(s[1], SumSeq(Tail(s)))

\* Python's sorted() on a set of distinct integers
RECURSIVE SortedIds(_)
SortedIds(S) ==
    IF S = {} THEN <<>>
    ELSE LET m == CHOOSE x \in S : \A y \in S : x <= y
         IN  <<m>> \o SortedIds(S \ {m})

----------------------------------------------------------------------------
(* mesh_area, lines 15-19 *)

Vsub(a, b) == [k \in 1..3 |-> a[k] - b[k]]

\* numpy.cross of two 3-vectors
Cross(a, b) == <<a[2] * b[3] - a[3] * b[2],
                 a[3] * b[1] - a[1] * b[3],
                 a[1] * b[2] - a[2] * b[1]>>

Norm2(a) == a[1] * a[1] + a[2] * a[2] + a[3] * a[3]

\* one area per triangle, in halves: sqrt(sum(N ** 2)) * .5
mesh_area(tl) ==
    [t \in 1..Len(tl) |->
        Isqrt(Norm2(Cross(Vsub(tl[t][2], tl[t][1]), Vsub(tl[t][3], tl[t][1]))))]

----------------------------------------------------------------------------
(* triangle_point_picking, lines 23-34 *)

\* the values numpy.random.random can return, in units of 1/Grid: [0, 1)
Draws == (0..(Grid - 1)) \X (0..(Grid - 1))

reflection == <<<<0, -1>>, <<-1, 0>>>>

\* line 28 with < for > (mutant)
FoldCond_Reversed(x) == x[1] + x[2] < Grid

\* line 28: t = numpy.sum(X, axis = 1) > 1
FoldCond(x) == x[1] + x[2] > Grid

\* line 29: X[t] = numpy.dot(X[t], reflection) + 1.
Fold(x) ==
    IF FoldCond(x)
    THEN <<x[1] * reflection[1][1] + x[2] * reflection[2][1] + Grid,
           x[1] * reflection[1][2] + x[2] * reflection[2][2] + Grid>>
    ELSE x

\* lines 32-33: einsum('ijk,ij->ik', T[:,1:] - T[:,0,None], X) + T[:,0], one row
MapPoint(T, x) ==
    [k \in 1..3 |->
        ((T[2][k] - T[1][k]) * x[1] + (T[3][k] - T[1][k]) * x[2]) \div Grid
        + T[1][k]]

\* the folded draws and the returned points for the raw draws `raw`
triangle_point_picking(tl, raw) ==
    LET folded == [i \in 1..Len(tl) |-> Fold(raw[i])]
    IN  [X |-> folded, ret |-> [i \in 1..Len(tl) |-> MapPoint(tl[i], folded[i])]]

----------------------------------------------------------------------------
(* uniform_sample_mesh, lines 38-49 *)

\* line 40 divides by numpy.sum(triangle_area_list): with a zero sum every
\* probability is 0/0 = NaN (numpy warns, it does not raise)
ProbabilitiesAreNaN(area) == SumSeq(area) = 0

\* line 48, numpy.random.choice(n, size, p): the index vectors it can return.
\* A triangle of probability 0 is never drawn.  With NaN probabilities the
\* result depends on the numpy build: releases that validate p raise
\* ValueError (see ChoiceCanRaise), older releases search the all-NaN
\* cumulative distribution and return index 0 (here 1) for every sample.
ChoiceIds(area, size) ==
    IF ProbabilitiesAreNaN(area)
    THEN {[k \in 1..size |-> 1]}
    ELSE [1..size -> {t \in 1..Len(area) : area[t] > 0}]

ChoiceCanRaise(area) == ProbabilitiesAreNaN(area)

----------------------------------------------------------------------------
(* blue_noise_sample_elimination, lines 53-84: the quantities of lines 55-67 *)

M == Len(point_list)

\* line 56 with sample_count = 0: area / 0 = inf for a positive area
TwoRmaxIsInf == sample_count = 0

\* line 56, 2 * rmax in units of 1/Scale:
\* (2 rmax)^2 = 4 (area/2) / (2 n sqrt 3) = area / (n sqrt 3), area in halves
TwoRmax ==
    Isqrt((Scale * Scale * mesh_surface_area * 1000) \div (Sqrt3Milli * sample_count))

Dist2(p, q) == Norm2(Vsub(p, q))

\* squareform(pdist(point_list))[i, j] in units of 1/Scale
pdist(i, j) == Isqrt(Scale * Scale * Dist2(point_list[i], point_list[j]))

\* lines 62-63: D[i, j] = (1 - min(d, 2 rmax) / (2 rmax)) ** alpha, in units of
\* Scale^(-alpha); min(d, inf) / inf = 0, and min(d, 0) / 0 = 0 / 0 = NaN
D(i, j) ==
    IF TwoRmaxIsInf THEN Pow(Scale, alpha)
    ELSE IF TwoRmax = 0 THEN NaN
    ELSE Pow(Scale - (Min(pdist(i, j), TwoRmax) * Scale) \div TwoRmax, alpha)

\* kdtree.query_ball_point(point_list[i], 2 * rmax): indices within the radius
query_ball_point(i) ==
    {j \in 1..M : TwoRmaxIsInf \/ pdist(i, j) <= TwoRmax}

\* sum of D[i, j] over a set of j
RECURSIVE SumD(_, _)
SumD(i, S) ==
    IF S = {} THEN 0
    ELSE LET j == CHOOSE x \in S : TRUE
         IN  Add(D(i, j), SumD(i, S \ {j}))

\* line 67 without the test i != j (mutant)
InitialNeighbours_WithSelf(i) == query_ball_point(i)

\* line 67: the j of the generator, for j in query_ball_point(...) if i != j
InitialNeighbours(i) == {j \in query_ball_point(i) : i # j}

\* line 67: W[i]
InitialW(i) == SumD(i, InitialNeighbours(i))

----------------------------------------------------------------------------
(* Python's ordering of the (w, i) tuples and list sorting, lines 70 and 81 *)

\* tuple comparison a < b: the first elements decide unless they are equal
TupleLess(a, b) ==
    IF a[1] # NaN /\ a[1] = b[1] THEN a[2] < b[2] ELSE NumLess(a[1], b[1])

HasNaN(s) == \E k \in 1..Len(s) : s[k][1] = NaN

Reorderings(s) ==
    {[k \in 1..Len(s) |-> s[f[k]]] :
        f \in {g \in [1..Len(s) -> 1..Len(s)] :
                 \A a, b \in 1..Len(s) : a # b => g[a] # g[b]}}

\* ascending order of a list of tuples with distinct indices and no NaN
RECURSIVE SortAsc(_)
SortAsc(s) ==
    IF s = <<>> THEN <<>>
    ELSE LET k == CHOOSE a \in 1..Len(s) :
                     \A b \in 1..Len(s) : a = b \/ TupleLess(s[a], s[b])
         IN  <<s[k]>> \o SortAsc(SubSeq(s, 1, k - 1) \o SubSeq(s, k + 1, Len(s)))

\* the lists sorted(s) / s.sort() can produce: with a NaN key no comparison
\* orders the list and the result is whatever the sort's moves leave
SortOutcomes(s) == IF HasNaN(s) THEN Reorderings(s) ELSE {SortAsc(s)}

----------------------------------------------------------------------------
(* blue_noise_sample_elimination, lines 70-84: the loop *)

\* line 70: the tuples (w, i) for i, w in enumerate(W)
InitialTuples == [i \in 1..M |-> <<InitialW(i), i>>]

\* line 73 with >= for > (mutant)
LoopCond_OffByOne == Cardinality(id_set) >= sample_count

\* line 73 leaving the loop one removal early (mutant)
LoopCond_StopsEarly == Cardinality(id_set) > sample_count + 1

\* line 73: while len(id_set) > sample_count
LoopCond == Cardinality(id_set) > sample_count

\* line 75 as heap.pop(0) (mutant)
PopIndex_First(h) == 1

\* line 75: heap.pop() takes the last element of the list
PopIndex(h) == Len(h)

\* line 78-79: neighbor_set
neighbor_set(i) == query_ball_point(i) \ {i}

\* line 80 with w + D[i, j] (mutant)
UpdatedTuple_Adds(e, i) ==
    IF e[2] \in neighbor_set(i) THEN <<e[1] + D(i, e[2]), e[2]>> ELSE e

\* line 80: one tuple of the rebuilt list
UpdatedTuple(e, i) ==
    IF e[2] \in neighbor_set(i)
    THEN <<(IF e[1] = NaN \/ D(i, e[2]) = NaN THEN NaN ELSE e[1] - D(i, e[2])), e[2]>>
    ELSE e

\* line 80: the list comprehension over the popped heap
UpdatedHeap(h, i) == [k \in 1..Len(h) |-> UpdatedTuple(h[k], i)]

\* line 84 as point_list[:len(id_set)] (mutant)
ReturnedPoints_Prefix(ids) == [k \in 1..Cardinality(ids) |-> point_list[k]]

\* line 84: point_list[sorted(id_set)]
ReturnedPoints(ids) ==
    LET order == SortedIds(ids)
    IN  [k \in 1..Len(order) |-> point_list[order[k]]]

----------------------------------------------------------------------------
(* Actions of blue_noise_sample_elimination *)

\* lines 55-72: weights, the sorted list and the surviving set
ElimBegin ==
    /\ pc = "elim"
    /\ \E tuples \in {InitialTuples} : \E h \in SortOutcomes(tuples) : heap' = h
    /\ id_set' = 1..M
    /\ removed' = <<>>
    /\ calls' = calls \cup {"blue_noise_sample_elimination"}
    /\ pc' = "loop"
    /\ UNCHANGED <<rng, stderr, triangle_list, tri_area, sample_count, point_list,
                   mesh_surface_area, X, result, outcome, shown>>

\* lines 73-81: one iteration of the while loop
ElimStep ==
    /\ pc = "loop"
    /\ LoopCond
    /\ IF heap = <<>>
       THEN \* line 75: pop from an empty list
            /\ outcome' = "IndexError"
            /\ pc' = "crashed"
            /\ UNCHANGED <<heap, id_set, removed>>
       ELSE LET i    == heap[PopIndex(heap)][2]
                rest == SubSeq(heap, 1, PopIndex(heap) - 1)
                           \o SubSeq(heap, PopIndex(heap) + 1, Len(heap))
            IN  IF i \notin id_set \/ i \notin query_ball_point(i)
                THEN \* line 76 / line 79: set.remove of an absent element
                     /\ outcome' = "KeyError"
                     /\ pc' = "crashed"
                     /\ UNCHANGED <<heap, id_set, removed>>
                ELSE /\ id_set' = id_set \ {i}
                     /\ removed' = Append(removed, i)
                     /\ \E updated \in {UpdatedHeap(rest, i)} :
                           \E h \in SortOutcomes(updated) : heap' = h
                     /\ UNCHANGED <<pc, outcome>>
    /\ UNCHANGED <<rng, calls, stderr, triangle_list, tri_area, sample_count,
                   point_list, mesh_surface_area, X, result, shown>>

\* line 84: the loop condition is false, the function returns
ElimReturn ==
    /\ pc = "loop"
    /\ ~LoopCond
    /\ result' = ReturnedPoints(id_set)
    /\ outcome' = "returned"
    /\ pc' = "returned"
    /\ UNCHANGED <<rng, calls, stderr, triangle_list, tri_area, sample_count,
                   point_list, mesh_surface_area, X, heap, id_set, removed, shown>>

NextElim == ElimBegin \/ ElimStep \/ ElimReturn

----------------------------------------------------------------------------
(* A direct call blue_noise_sample_elimination(point_list, area, sample_count) *)

\* candidate points of the direct calls
Sites == {<<x, y, 0>> : x \in 0..MaxCoord, y \in 0..MaxCoord}

PointLists == UNION {[1..n -> Sites] : n \in 1..MaxPoints}

\* the call on a surface of positive area, for every candidate list and
\* every sample_count from 0 to more than the number of candidates (with a
\* zero area and sample_count > 0 the radius is 0 and every D[i, j] is NaN)
InitElim ==
    /\ pc = "elim"
    /\ calls = {}
    /\ stderr = <<>>
    /\ triangle_list = <<>>
    /\ tri_area = <<>>
    /\ point_list \in PointLists
    /\ sample_count \in 0..(MaxPoints + 1)
    /\ mesh_surface_area \in 1..MaxArea
    /\ rng = <<>>
    /\ X = <<>>
    /\ heap = <<>>
    /\ id_set = {}
    /\ removed = <<>>
    /\ result = <<>>
    /\ outcome = "running"
    /\ shown = <<>>

SpecElim == InitElim /\ [][NextElim]_vars

----------------------------------------------------------------------------
(* main, lines 88-116 *)

\* a right triangle with legs of length 1 and a zero-area triangle
\* (collinear vertices), scaled by Grid
TriA == <<<<0, 0, 0>>, <<Grid, 0, 0>>, <<0, Grid, 0>>>>
TriZ == <<<<0, 0, 0>>, <<Grid, 0, 0>>, <<2 * Grid, 0, 0>>>>

\* the meshes stlparser.load returns in the runs explored
InputMeshes == {<<TriA>>, <<TriZ>>, <<TriZ, TriA>>}

\* the values of --sample-count explored
SampleCountArgs == {1}

\* lines 98-99 without sys.exit (mutant)
AfterParseError_FallsThrough == "area"

\* lines 98-99: the handler writes the message and calls sys.exit(0)
AfterParseError == "exited"

Init ==
    /\ pc = "load"
    /\ calls = {"main"}
    /\ stderr = <<>>
    /\ triangle_list = <<>>
    /\ tri_area = <<>>
    /\ sample_count \in SampleCountArgs
    /\ point_list = <<>>
    /\ mesh_surface_area = 0
    /\ rng = <<>>
    /\ X = <<>>
    /\ heap = <<>>
    /\ id_set = {}
    /\ removed = <<>>
    /\ result = <<>>
    /\ outcome = "running"
    /\ shown = <<>>

\* lines 95-99: stlparser.load either raises ParseError or yields the triangles
Load ==
    /\ pc = "load"
    /\ \/ /\ stderr' = Append(stderr, "ParseError")
          /\ pc' = AfterParseError
          /\ UNCHANGED triangle_list
       \/ /\ triangle_list' \in InputMeshes
          /\ pc' = "area"
          /\ UNCHANGED stderr
    /\ UNCHANGED <<rng, calls, tri_area, sample_count, point_list, mesh_surface_area,
                   X, heap, id_set, removed, result, outcome, shown>>

\* line 102
MeshArea ==
    /\ pc = "area"
    /\ tri_area' = mesh_area(triangle_list)
    /\ calls' = calls \cup {"mesh_area"}
    /\ pc' = "sample"
    /\ UNCHANGED <<rng, stderr, triangle_list, sample_count, point_list,
                   mesh_surface_area, X, heap, id_set, removed, result, outcome,
                   shown>>

\* line 105: uniform_sample_mesh(triangle_list, tri_area, 4 * args.sample_count),
\* lines 38-49 with the call of triangle_point_picking
SampleMesh ==
    /\ pc = "sample"
    /\ \/ /\ ChoiceCanRaise(tri_area)
          /\ outcome' = "ValueError"
          /\ pc' = "crashed"
          /\ calls' = calls \cup {"uniform_sample_mesh"}
          /\ UNCHANGED point_list
       \/ \E ids \in ChoiceIds(tri_area, Oversample * sample_count) :
          \E raw \in [1..(Oversample * sample_count) -> Draws] :
             /\ point_list' =
                   triangle_point_picking(
                       [k \in 1..(Oversample * sample_count) |-> triangle_list[ids[k]]],
                       raw).ret
             /\ calls' = calls \cup {"uniform_sample_mesh", "triangle_point_picking"}
             /\ pc' = "sampled"
             /\ UNCHANGED outcome
    /\ UNCHANGED <<rng, stderr, triangle_list, tri_area, sample_count,
                   mesh_surface_area, X, heap, id_set, removed, result, shown>>

\* line 108: the arguments of the call, numpy.sum(tri_area) among them
CallElim ==
    /\ pc = "sampled"
    /\ mesh_surface_area' = SumSeq(tri_area)
    /\ pc' = "elim"
    /\ UNCHANGED <<rng, calls, stderr, triangle_list, tri_area, sample_count, point_list,
                   X, heap, id_set, removed, result, outcome, shown>>

\* line 108 (the result is bound to point_list) and lines 111-116
Display ==
    /\ pc = "returned"
    /\ "main" \in calls
    /\ point_list' = result
    /\ shown' = result
    /\ calls' = calls \cup {"display"}
    /\ pc' = "done"
    /\ UNCHANGED <<rng, stderr, triangle_list, tri_area, sample_count,
                   mesh_surface_area, X, heap, id_set, removed, result, outcome>>

Next ==
    \/ Load
    \/ MeshArea
    \/ SampleMesh
    \/ CallElim
    \/ ElimBegin
    \/ ElimStep
    \/ ElimReturn
    \/ Display

Spec == Init /\ [][Next]_vars

----------------------------------------------------------------------------
(* A direct call triangle_point_picking(triangle_list) on one triangle *)

Vertices == {<<Grid * x, Grid * y, Grid * z>> :
                x \in 0..MaxCoord, y \in 0..MaxCoord, z \in 0..MaxCoord}

InitPick ==
    /\ pc = "pick"
    /\ calls = {}
    /\ stderr = <<>>
    /\ triangle_list \in {<<<<a, b, c>>>> : a \in Vertices, b \in Vertices, c \in Vertices}
    /\ tri_area = <<>>
    /\ sample_count = 0
    /\ point_list = <<>>
    /\ mesh_surface_area = 0
    /\ rng \in [1..1 -> Draws]
    /\ X = <<>>
    /\ heap = <<>>
    /\ id_set = {}
    /\ removed = <<>>
    /\ result = <<>>
    /\ outcome = "running"
    /\ shown = <<>>

\* lines 27-34, observed at the return statement (X still in scope)
Pick ==
    /\ pc = "pick"
    /\ X' = triangle_point_picking(triangle_list, rng).X
    /\ result' = triangle_point_picking(triangle_list, rng).ret
    /\ outcome' = "returned"
    /\ calls' = calls \cup {"triangle_point_picking"}
    /\ pc' = "picked"
    /\ UNCHANGED <<rng, stderr, triangle_list, tri_area, sample_count, point_list,
                   mesh_surface_area, heap, id_set, removed, shown>>

SpecPick == InitPick /\ [][Pick]_vars

----------------------------------------------------------------------------
(* Properties *)

\* the weight the priority list holds for index j
WeightOf(h, j) == (CHOOSE e \in Range(h) : e[2] = j)[1]

\* the k-th smallest element of a set of integers
NthSmallest(S, k) == CHOOSE x \in S : Cardinality({y \in S : y < x}) = k - 1

\* an iteration of the elimination loop has just removed a point
Removal == pc = "loop" /\ id_set' # id_set

\* C1: for a candidate set of M points and 0 <= sample_count <= M, the call
\* returns exactly sample_count points.
C1_ExactCount ==
    (pc = "returned" /\ sample_count <= M) => Len(result) = sample_count

C1_Witness ==
    /\ pc = "returned"
    /\ 0 < sample_count /\ sample_count < M
    /\ Len(result) = sample_count

\* C2: with fewer candidates than sample_count the call ends in an error
\* (InsufficientCandidatesError) and returns no point set.
C2_InsufficientCandidates ==
    (M < sample_count /\ pc \in {"returned", "crashed"})
        => (outcome \notin {"running", "returned"} /\ result = <<>>)

\* C3: every iteration removes a surviving point whose tracked weight is
\* maximal among the survivors, and among the survivors of maximal weight the
\* one removed is fixed by the state (it is the one of largest index).
C3_RemovesMaximum ==
    [][Removal =>
         \E i \in id_set :
            /\ id_set' = id_set \ {i}
            /\ \A j \in id_set : WeightOf(heap, j) <= WeightOf(heap, i)
            /\ \A j \in id_set : WeightOf(heap, j) = WeightOf(heap, i) => j <= i
      ]_vars

\* a removal by weight (not the last index) has happened and the next one
\* has to break a tie between two survivors of positive weight
C3_Witness ==
    /\ pc = "loop" /\ LoopCond
    /\ removed # <<>> /\ removed[1] # M
    /\ Len(heap) >= 2
    /\ heap[Len(heap)][1] = heap[Len(heap) - 1][1]
    /\ heap[Len(heap)][1] > 0

\* C4: a removal never increases the tracked weight of a survivor.
C4_WeightsNeverIncrease ==
    [][Removal => \A j \in id_set' : WeightOf(heap', j) <= WeightOf(heap, j)]_vars

\* after a removal one survivor has lost weight and another has kept its own
C4_Witness ==
    /\ pc = "loop" /\ removed # <<>>
    /\ \E j \in id_set : WeightOf(heap, j) < InitialW(j)
    /\ \E k \in id_set : WeightOf(heap, k) = InitialW(k)

\* C5: after initialisation and after every removal the priority list holds
\* one entry per survivor, and the weight of survivor i is the sum of D[i, j]
\* over the survivors j # i within the interaction radius of i.
C5_TrackedWeightIsSum ==
    pc \in {"loop", "returned"} =>
        /\ Len(heap) = Cardinality(id_set)
        /\ {heap[k][2] : k \in 1..Len(heap)} = id_set
        /\ \A k \in 1..Len(heap) :
              heap[k][1] =
                 SumD(heap[k][2],
                      {j \in id_set : j # heap[k][2] /\ j \in query_ball_point(heap[k][2])})

\* after a removal a survivor still has a neighbour, and less weight than at
\* the start
C5_Witness ==
    /\ pc = "loop" /\ removed # <<>>
    /\ \E k \in 1..Len(heap) :
          heap[k][1] > 0 /\ heap[k][1] < InitialW(heap[k][2])

\* C6: after a parse error of the loader the message is reported and the
\* program has exited: no function of the pipeline has run and no point set
\* exists or is displayed.
C6_ParseErrorStops ==
    stderr # <<>> =>
        /\ pc = "exited"
        /\ stderr = <<"ParseError">>
        /\ calls = {"main"}
        /\ tri_area = <<>> /\ point_list = <<>>
        /\ result = <<>> /\ shown = <<>>

C6_Witness == pc = "exited" /\ stderr = <<"ParseError">> /\ calls = {"main"}

\* C7: with a zero total area uniform_sample_mesh ends in an error
\* (InvalidDistributionError) and returns no points.
C7_ZeroAreaRaises ==
    (tri_area # <<>> /\ SumSeq(tri_area) = 0 /\ "uniform_sample_mesh" \in calls)
        => (outcome \notin {"running", "returned"} /\ point_list = <<>>)

\* C8: the folded pair has both coordinates in [0, 1] and sum <= 1, and the
\* returned point is a convex combination of the triangle's vertices.
InsideTriangle(P, T) ==
    \E s, t \in 0..Grid :
        /\ s + t <= Grid
        /\ \A k \in 1..3 :
              Grid * P[k] = (Grid - s - t) * T[1][k] + s * T[2][k] + t * T[3][k]

C8_InsideTriangle ==
    pc = "picked" =>
        \A i \in 1..Len(triangle_list) :
            /\ X[i][1] \in 0..Grid /\ X[i][2] \in 0..Grid
            /\ X[i][1] + X[i][2] <= Grid
            /\ InsideTriangle(result[i], triangle_list[i])

\* a draw with u + v > 1 has been folded, on a triangle of positive area
C8_Witness ==
    /\ pc = "picked"
    /\ rng[1][1] + rng[1][2] > Grid
    /\ X[1] = <<Grid - rng[1][2], Grid - rng[1][1]>>
    /\ mesh_area(triangle_list)[1] > 0

\* C9: the returned sequence is the candidates never removed, each once, in
\* ascending candidate index, coordinates unchanged.
C9_SurvivorsInOrder ==
    pc = "returned" =>
        LET kept == (1..M) \ Range(removed)
        IN  /\ Len(result) = Cardinality(kept)
            /\ \A k \in 1..Len(result) : result[k] = point_list[NthSmallest(kept, k)]

C9_Witness ==
    /\ pc = "returned"
    /\ \E r \in Range(removed) : r < M
    /\ Len(result) >= 2 /\ result[1] # result[2]

\* C10: for 0 <= sample_count <= M the loop terminates after exactly
\* M - sample_count removals of pairwise distinct surviving points: no pop
\* from an empty list, no pop of an index already removed, every iteration
\* removes one more point, the number of removals never exceeds
\* M - sample_count, and the call returns when it is reached.
C10_Terminates ==
    sample_count <= M =>
        /\ pc # "crashed"
        /\ Len(removed) <= M - sample_count
        /\ Cardinality(Range(removed)) = Len(removed)
        /\ Range(removed) \cap id_set = {}
        /\ pc = "loop" =>
              /\ Cardinality(id_set) = M - Len(removed)
              /\ LoopCond => (heap # <<>> /\ heap[PopIndex(heap)][2] \in id_set)
              /\ ~LoopCond => Len(removed) = M - sample_count
        /\ pc = "returned" => Len(removed) = M - sample_count

C10_Witness ==
    /\ pc = "returned"
    /\ Len(removed) = M - sample_count
    /\ Len(removed) >= 2
    /\ removed[1] # removed[2]

====
